---- MODULE Spec2Model ----
(***************************************************************************)
(* oc-notifier: the session tracker of src/index.ts (Spec, SpecPair,      *)
(* SpecAsk, SpecOrder), the connection loop of SSEClient (SpecClient,      *)
(* SpecClientLive), its stream decoder (SpecStream), its handler lists     *)
(* (SpecHandlers) and the Notifier (SpecNotifier).  Each specification     *)
(* moves the variables of its own component and leaves the others as       *)
(* constructed.                                                            *)
(*                                                                         *)
(* The process is one JavaScript event loop.  Every action below is one    *)
(* run-to-completion step of that loop: a handler invoked by the SSE       *)
(* client, a setInterval callback, a setTimeout callback up to its first   *)
(* await, or the continuation after that await.                            *)
(*                                                                         *)
(* setTimeout(cb, config.debounceMs) only promises that cb does not run    *)
(* before debounceMs has elapsed, and config.ts accepts every non-negative *)
(* debounceMs, so a live timer may expire at any later step.               *)
(***************************************************************************)
EXTENDS Integers, FiniteSets, Sequences, Bags, TLC

\* ---------------------------------------------------------------- constants
SESSION_TTL_MS == 3600000

QUESTION_TTL_MS == 1800000

\* ------------------------------------------------------------------- bounds
\* number of debounce timers the session.status events of one run start
MaxTimers == 2

\* number of metadata lookups the question tool events of one run start
MaxQuestions == 1

\* the same two numbers for the runs that follow the question tool: one
\* timer, two lookups started by question tool events
MaxAskTimers == 1

MaxAsks == 2

\* Date.now() readings: any two of them are 30, 60 or 90 minutes apart, which
\* puts an age on, below and above each retention threshold
Instants == {0, QUESTION_TTL_MS, QUESTION_TTL_MS + SESSION_TTL_MS}

\* ------------------------------------------------------------------ inputs
SessionIDs == {"s1", "s2"}

Directories == {"/p"}

StatusTypes == {"idle", "busy", "retry"}

ToolStatuses == {"pending", "running", "completed", "error"}

\* undefined of the source, for a value that is otherwise a string
Undefined == "undefined"

\* null / undefined of the source, for a value that is otherwise an object
Null == [null |-> TRUE]

\* what GET /session/:id holds: s1 is a titled top-level session, s2 an
\* untitled subagent
ServerParentID == [s \in SessionIDs |-> IF s = "s1" THEN Undefined ELSE "parent"]

ServerTitle == [s \in SessionIDs |-> IF s = "s1" THEN "Title" ELSE Undefined]

ProjectID == "proj"

DesktopBaseUrl == "https://oc"

DefaultQuestion == "OpenCode is waiting for your input"

\* A question text is its first 100 characters (head) and the rest (tail).
\* input.questions?.[0]?.question may be absent.
QuestionInputs == {Null} \cup [head : {"Q"}, tail : {"", "more"}]

\* the tool states of the question tool events: only a running one is read
\* for its input
ToolStates ==
    {[status |-> "running", input |-> q] : q \in QuestionInputs}
    \cup {[status |-> ts, input |-> Null] : ts \in ToolStatuses \ {"running"}}

VARIABLES
    now,                    \* the reading Date.now() returns
    sessionState,           \* Map sessionID -> {status, lastSeen}
    pendingNotifications,   \* Map sessionID -> Timer
    knownSubagents,         \* Set of sessionID
    notifiedQuestions,      \* Map questionKey -> timestamp
    timers,                 \* live setTimeout callbacks of the runtime
    inflight,               \* bag of continuations awaiting fetchSessionInfo
    sent,                   \* notifications handed to notifier.send, in order
    causes,                 \* history, kept in the runs that number their timers:
                            \* per notification, the number of the setTimeout call
                            \* of its session that led to it (0: a question)
    lastObserved,           \* history: status of the last session.status event per session
    scheduled,              \* history: number of debounce timers started, per session
    asked,                  \* history: number of lookups started by question tool events
    settled,                \* history: sessions that were once marked as subagent
                            \* with no timer and no lookup of theirs outstanding
    orphans,                \* history: handles of the live timers whose session
                            \* lost its entry to the sweep after they were started
    active,                 \* the sessions the server reports on in this run
    budget                  \* how many timers and question lookups this run may
                            \* start, and whether it numbers its timers

\* SSEClient, the connection loop of start(), connect() and stop()
VARIABLES
    isRunning,              \* this.isRunning
    reconnectDelay,         \* this.reconnectDelay
    abortController,        \* this.abortController: Null or a controller
    pc,                     \* where start() is suspended
    sleepFor,               \* the delay handed to the sleep start() is in
    attempts,               \* history: connection attempts (fetch calls) made
    failures,               \* history: failures since the last successful connection
    stops                   \* history: calls of stop()

\* the stream decoder of SSEClient: the read loop of connect(), processLine
\* and processEvent.  A string is a sequence of one-character strings.
VARIABLES
    wire,                   \* what the server still sends on the open connection
    connected,              \* connect() is in its read loop
    buffer,                 \* `buffer` of connect()
    currentEventData,       \* this.currentEventData
    connections,            \* history: connections opened
    received,               \* history: what was read on the open connection
    carried,                \* history: currentEventData when the connection opened
    processed,              \* history: the data handed to processEvent on it
    emitted,                \* history: the handler calls made on it
    spanned                 \* history: a line was put together from two chunks

\* the handler lists of SSEClient
VARIABLES
    eventHandlers,          \* this.eventHandlers: what each registered handler does
                            \* when called
    deliveries              \* history: per decoded session.status event, the number
                            \* of handlers registered and the handlers called, in order

\* Notifier
VARIABLES
    configured,             \* the providers handed to the constructor, with their enabled flag
    providers,              \* this.providers
    sendStatus,             \* per notification: the promise send() returned
    invoked,                \* per notification and provider: calls of provider.send
    delivery,               \* per notification and provider: the promise of provider.send
    reported                \* per notification: the failure count send() logged

trackerVars == <<now, sessionState, pendingNotifications, knownSubagents,
                 notifiedQuestions, timers, inflight, sent, causes,
                 lastObserved, scheduled, asked, settled, orphans, active, budget>>

clientVars == <<isRunning, reconnectDelay, abortController, pc, sleepFor,
                attempts, failures, stops>>

decoderVars == <<wire, connected, buffer, currentEventData, connections,
                 received, carried, processed, emitted, spanned>>

handlerVars == <<eventHandlers, deliveries>>

streamVars == <<decoderVars, handlerVars>>

notifierVars == <<configured, providers, sendStatus, invoked, delivery, reported>>

vars == <<trackerVars, clientVars, streamVars, notifierVars>>

\* ----------------------------------------------------------------- helpers
\* Map.prototype.clear in place of delete: every entry goes
MapDelete_Clear(m, k) == [x \in {} |-> m[x]]

\* Map.delete(k)
MapDelete(m, k) == [x \in (DOMAIN m) \ {k} |-> m[x]]

\* Map.set(k, v)
MapSet(m, k, v) == [x \in (DOMAIN m) \cup {k} |-> IF x = k THEN v ELSE m[x]]

EmptyMap == [x \in {} |-> Undefined]

\* sessionState.get(sessionID)?.status
StatusOf(m, sessionID) ==
    IF sessionID \in DOMAIN m THEN m[sessionID].status ELSE Undefined

\* the number of the next setTimeout call for the session, in the order of
\* the calls; 0 in the runs that do not number their timers
Ordinal(sessionID) == IF budget.numbered THEN scheduled[sessionID] + 1 ELSE 0

\* `causes` after a notification that stems from the timer numbered edge
Caused(edge) == IF budget.numbered THEN Append(causes, edge) ELSE causes

\* a Timer handle that no live timer and no map entry refers to; handles are
\* numbered per session
FreshTimer(sessionID) ==
    LET used == {t.id : t \in timers}
                \cup {pendingNotifications[s] : s \in DOMAIN pendingNotifications}
    IN  CHOOSE h \in {<<sessionID, i>> : i \in 1..(Cardinality(used) + 1)} :
            /\ h \notin used
            /\ \A j \in 1..(h[2] - 1) : <<sessionID, j>> \in used

\* clearTimeout left out: the timer stays live
ClearTimeout_Leak(ts, id) == ts

\* clearTimeout(timer)
ClearTimeout(ts, id) == {t \in ts : t.id # id}

\* buildDesktopUrl; the base URL of the model has no trailing slash
buildDesktopUrl(baseUrl, projectId, sessionId) ==
    <<baseUrl, "/", projectId, "/session/", sessionId>>

\* a string value the source treats as true
Truthy(v) == v # Undefined /\ v # ""

\* SSEClient.fetchSessionInfo: null on a failed request (ok = FALSE),
\* otherwise the session's record with the title defaulted to the identifier
fetchSessionInfo(sessionId, ok) ==
    IF ~ok
    THEN Null
    ELSE [id |-> sessionId,
          parentSessionID |-> ServerParentID[sessionId],
          title |-> IF Truthy(ServerTitle[sessionId])
                    THEN ServerTitle[sessionId] ELSE sessionId,
          projectID |-> ProjectID]


\* sessionInfo?.field || fallback
FieldOr(info, field, fallback) ==
    IF info # Null /\ Truthy(info[field]) THEN info[field] ELSE fallback

\* a lookup without result taken for one that names a parent
HasParent_OrMissing(info) == info = Null \/ Truthy(info.parentSessionID)

\* sessionInfo?.parentSessionID
HasParent(info) == info # Null /\ Truthy(info.parentSessionID)

IdleNotification(sessionID, directory, info) ==
    [type |-> "idle",
     sessionId |-> sessionID,
     sessionTitle |-> FieldOr(info, "title", sessionID),
     projectId |-> FieldOr(info, "projectID", ""),
     projectDirectory |-> directory,
     desktopUrl |-> buildDesktopUrl(DesktopBaseUrl, FieldOr(info, "projectID", ""), sessionID)]

\* the live timers whose callback closes over sessionID
TimersOf(sessionID) == {t \in timers : t.sessionID = sessionID}

\* the outstanding lookups of one kind made for sessionID
InflightOf(sessionID, kind) ==
    {c \in BagToSet(inflight) : c.sessionID = sessionID /\ c.kind = kind}

\* how many notifications of one type were handed over for sessionID
CountSent(log, sessionID, type) ==
    Cardinality({i \in 1..Len(log) :
                    log[i].sessionId = sessionID /\ log[i].type = type})

\* how many lookups of one kind are outstanding for sessionID
Outstanding(calls, sessionID, kind) ==
    LET S == {c \in BagToSet(calls) : c.sessionID = sessionID /\ c.kind = kind}
    IN  BagCardinality([c \in S |-> calls[c]])

\* marked sessions with nothing of theirs outstanding
Quiescent ==
    {s \in knownSubagents :
        /\ TimersOf(s) = {}
        /\ InflightOf(s, "idle") = {}
        /\ InflightOf(s, "question") = {}}

\* the double check left out
StillIdle_Always(sessionID) == TRUE

\* the double check inverted
StillIdle_Inverted(sessionID) == StatusOf(sessionState, sessionID) # "idle"

\* the double check of the timer callback: the session is still idle
StillIdle(sessionID) == StatusOf(sessionState, sessionID) = "idle"

\* input.questions?.[0]?.question || "OpenCode is waiting for your input"
QuestionTextOf(input) ==
    IF input = Null \/ (input.head = "" /\ input.tail = "")
    THEN [head |-> DefaultQuestion, tail |-> ""]
    ELSE input

\* `${sessionID}:${questionText.slice(0, 100)}`
QuestionKey(sessionID, questionText) == <<sessionID, ":", questionText.head>>

QuestionNotification(sessionID, directory, info, questionText) ==
    [type |-> "question",
     sessionId |-> sessionID,
     sessionTitle |-> FieldOr(info, "title", sessionID),
     projectId |-> FieldOr(info, "projectID", ""),
     projectDirectory |-> directory,
     desktopUrl |-> buildDesktopUrl(DesktopBaseUrl, FieldOr(info, "projectID", ""), sessionID),
     question |-> questionText]

\* ------------------------------------------------------------------- state
\* the fields of a constructed SSEClient, start() not called yet
ClientConstructed ==
    /\ isRunning = FALSE
    /\ reconnectDelay = 1000
    /\ abortController = Null
    /\ pc = "idle"
    /\ sleepFor = 0
    /\ attempts = 0
    /\ failures = 0
    /\ stops = 0

\* notifications handed to Notifier.send in one run
MaxSends == 2

\* the providers of the configuration, in its order
ProviderList == <<"discord", "webhook", "msteams">>

ProviderTypes == {ProviderList[i] : i \in 1..Len(ProviderList)}

\* the filter left out: every configured provider is kept
EnabledOnly_All(list, enabled) == list

\* providers.filter((p) => p.enabled)
EnabledOnly(list, enabled) ==
    LET RECURSIVE Keep(_)
        Keep(l) == IF l = <<>> THEN <<>>
                   ELSE IF enabled[Head(l)]
                        THEN <<Head(l)>> \o Keep(Tail(l))
                        ELSE Keep(Tail(l))
    IN  Keep(list)

\* new Notifier(providers) for a configuration, send() not called yet
NotifierConstructed(enabled) ==
    /\ configured = enabled
    /\ providers = EnabledOnly(ProviderList, enabled)
    /\ sendStatus = [n \in 1..MaxSends |-> "notCalled"]
    /\ invoked = [n \in 1..MaxSends |-> [p \in ProviderTypes |-> 0]]
    /\ delivery = [n \in 1..MaxSends |-> [p \in ProviderTypes |-> "none"]]
    /\ reported = [n \in 1..MaxSends |-> 0]

\* a configuration without enabled provider
NoProvider == [p \in ProviderTypes |-> FALSE]

\* the decoder of a constructed SSEClient, no connection opened yet
DecoderConstructed ==
    /\ wire = <<>>
    /\ connected = FALSE
    /\ buffer = <<>>
    /\ currentEventData = <<>>
    /\ connections = 0
    /\ received = <<>>
    /\ carried = <<>>
    /\ processed = <<>>
    /\ emitted = <<>>
    /\ spanned = FALSE
    /\ eventHandlers = <<>>
    /\ deliveries = <<>>

Init ==
    /\ now = 0
    /\ sessionState = EmptyMap
    /\ pendingNotifications = EmptyMap
    /\ knownSubagents = {}
    /\ notifiedQuestions = EmptyMap
    /\ timers = {}
    /\ inflight = EmptyBag
    /\ sent = <<>>
    /\ causes = <<>>
    /\ lastObserved = [s \in SessionIDs |-> Undefined]
    /\ scheduled = [s \in SessionIDs |-> 0]
    /\ asked = 0
    /\ settled = {}
    /\ orphans = {}
    /\ active \in {{s} : s \in SessionIDs}
    /\ budget = [timers |-> MaxTimers, questions |-> MaxQuestions,
                 numbered |-> FALSE]
    /\ ClientConstructed
    /\ DecoderConstructed
    /\ NotifierConstructed(NoProvider)

\* sum of a per-session counter
Total(f) ==
    LET RECURSIVE Sum(_)
        Sum(S) == IF S = {} THEN 0
                  ELSE LET x == CHOOSE y \in S : TRUE IN f[x] + Sum(S \ {x})
    IN  Sum(DOMAIN f)

\* `orphans` after the step: a handle stays while its timer is live, and the
\* live timers of a session whose entry goes in this step join
OrphansAfter ==
    {t.id : t \in {u \in timers' :
                      \/ u.id \in orphans
                      \/ /\ u.sessionID \in DOMAIN sessionState
                         /\ u.sessionID \notin DOMAIN sessionState'}}

\* time passes between two steps of the event loop
Tick ==
    /\ \E t \in Instants : t > now /\ now' = t
    /\ UNCHANGED <<sessionState, pendingNotifications, knownSubagents,
                   notifiedQuestions, timers, inflight, sent, causes,
                   lastObserved, scheduled, asked>>
    /\ settled' = settled \cup Quiescent'
    /\ orphans' = OrphansAfter
    /\ UNCHANGED <<active, budget, clientVars, streamVars, notifierVars>>

\* the handler without the `prevStatus &&` test: an initial idle schedules
StatusDecision_InitialIdle(sessionID, currentStatus, prevStatus, directory) ==
    IF sessionID \in knownSubagents
    THEN UNCHANGED <<timers, pendingNotifications>>
    ELSE IF currentStatus # "idle"
    THEN IF sessionID \in DOMAIN pendingNotifications
         THEN /\ timers' = ClearTimeout(timers, pendingNotifications[sessionID])
              /\ pendingNotifications' = MapDelete(pendingNotifications, sessionID)
         ELSE UNCHANGED <<timers, pendingNotifications>>
    ELSE IF prevStatus # "idle"
    THEN IF sessionID \in DOMAIN pendingNotifications
         THEN UNCHANGED <<timers, pendingNotifications>>
         ELSE /\ timers' = timers \cup {[id |-> FreshTimer(sessionID),
                                         sessionID |-> sessionID,
                                         directory |-> directory,
                                         edge |-> Ordinal(sessionID)]}
              /\ pendingNotifications' =
                    MapSet(pendingNotifications, sessionID, FreshTimer(sessionID))
    ELSE UNCHANGED <<timers, pendingNotifications>>

\* the handler with a busy or retry observation that leaves the timer alone
StatusDecision_NoCancel(sessionID, currentStatus, prevStatus, directory) ==
    IF sessionID \in knownSubagents
    THEN UNCHANGED <<timers, pendingNotifications>>
    ELSE IF currentStatus # "idle"
    THEN UNCHANGED <<timers, pendingNotifications>>
    ELSE IF prevStatus # Undefined /\ prevStatus # "idle"
    THEN IF sessionID \in DOMAIN pendingNotifications
         THEN UNCHANGED <<timers, pendingNotifications>>
         ELSE /\ timers' = timers \cup {[id |-> FreshTimer(sessionID),
                                         sessionID |-> sessionID,
                                         directory |-> directory,
                                         edge |-> Ordinal(sessionID)]}
              /\ pendingNotifications' =
                    MapSet(pendingNotifications, sessionID, FreshTimer(sessionID))
    ELSE UNCHANGED <<timers, pendingNotifications>>

\* the handler without the early return for known subagents
StatusDecision_NoSkip(sessionID, currentStatus, prevStatus, directory) ==
    IF currentStatus # "idle"
    THEN IF sessionID \in DOMAIN pendingNotifications
         THEN /\ timers' = ClearTimeout(timers, pendingNotifications[sessionID])
              /\ pendingNotifications' = MapDelete(pendingNotifications, sessionID)
         ELSE UNCHANGED <<timers, pendingNotifications>>
    ELSE IF prevStatus # Undefined /\ prevStatus # "idle"
    THEN IF sessionID \in DOMAIN pendingNotifications
         THEN UNCHANGED <<timers, pendingNotifications>>
         ELSE /\ timers' = timers \cup {[id |-> FreshTimer(sessionID),
                                         sessionID |-> sessionID,
                                         directory |-> directory,
                                         edge |-> Ordinal(sessionID)]}
              /\ pendingNotifications' =
                    MapSet(pendingNotifications, sessionID, FreshTimer(sessionID))
    ELSE UNCHANGED <<timers, pendingNotifications>>

\* what the session.status handler does to timers and pendingNotifications
\* once the tracked status is updated
StatusDecision(sessionID, currentStatus, prevStatus, directory) ==
    IF sessionID \in knownSubagents
    THEN UNCHANGED <<timers, pendingNotifications>>
    ELSE IF currentStatus # "idle"
    THEN IF sessionID \in DOMAIN pendingNotifications
         THEN /\ timers' = ClearTimeout(timers, pendingNotifications[sessionID])
              /\ pendingNotifications' = MapDelete(pendingNotifications, sessionID)
         ELSE UNCHANGED <<timers, pendingNotifications>>
    ELSE IF prevStatus # Undefined /\ prevStatus # "idle"
    THEN IF sessionID \in DOMAIN pendingNotifications
         THEN UNCHANGED <<timers, pendingNotifications>>
         ELSE /\ timers' = timers \cup {[id |-> FreshTimer(sessionID),
                                         sessionID |-> sessionID,
                                         directory |-> directory,
                                         edge |-> Ordinal(sessionID)]}
              /\ pendingNotifications' =
                    MapSet(pendingNotifications, sessionID, FreshTimer(sessionID))
    ELSE UNCHANGED <<timers, pendingNotifications>>

\* the handler with the early return for known subagents placed before the
\* update of the tracked entry
OnSessionStatus_ReturnFirst(sessionID, currentStatus, directory) ==
    /\ lastObserved' = [lastObserved EXCEPT ![sessionID] = currentStatus]
    /\ sessionState' = IF sessionID \in knownSubagents
                       THEN sessionState
                       ELSE MapSet(sessionState, sessionID,
                                   [status |-> currentStatus, lastSeen |-> now])
    /\ StatusDecision(sessionID, currentStatus,
                      StatusOf(sessionState, sessionID), directory)
    /\ scheduled' = [scheduled EXCEPT ![sessionID] = @ + Cardinality(timers' \ timers)]
    /\ Total(scheduled') <= budget.timers
    /\ UNCHANGED <<now, knownSubagents, notifiedQuestions, inflight, sent, causes, asked>>
    /\ settled' = settled \cup Quiescent'
    /\ orphans' = OrphansAfter
    /\ UNCHANGED <<active, budget, clientVars, streamVars, notifierVars>>

\* sseClient.onSessionStatus handler
OnSessionStatus(sessionID, currentStatus, directory) ==
    /\ lastObserved' = [lastObserved EXCEPT ![sessionID] = currentStatus]
    /\ sessionState' = MapSet(sessionState, sessionID,
                              [status |-> currentStatus, lastSeen |-> now])
    /\ StatusDecision(sessionID, currentStatus,
                      StatusOf(sessionState, sessionID), directory)
    /\ scheduled' = [scheduled EXCEPT ![sessionID] = @ + Cardinality(timers' \ timers)]
    /\ Total(scheduled') <= budget.timers
    /\ UNCHANGED <<now, knownSubagents, notifiedQuestions, inflight, sent, causes, asked>>
    /\ settled' = settled \cup Quiescent'
    /\ orphans' = OrphansAfter
    /\ UNCHANGED <<active, budget, clientVars, streamVars, notifierVars>>

\* the callback registered with setInterval: the timer stays live after it ran
TimerExpires_Repeats(t) ==
    /\ t \in timers
    /\ UNCHANGED timers
    /\ pendingNotifications' = MapDelete(pendingNotifications, t.sessionID)
    /\ IF ~StillIdle(t.sessionID)
       THEN UNCHANGED inflight
       ELSE inflight' = inflight (+) SetToBag({[kind |-> "idle",
                                               sessionID |-> t.sessionID,
                                               directory |-> t.directory,
                                               questionKey |-> <<>>,
                                               questionText |-> Null,
                                               edge |-> t.edge]})
    /\ UNCHANGED <<now, sessionState, knownSubagents, notifiedQuestions, sent, causes,
                   lastObserved, scheduled, asked>>
    /\ settled' = settled \cup Quiescent'
    /\ orphans' = OrphansAfter
    /\ UNCHANGED <<active, budget, clientVars, streamVars, notifierVars>>

\* the callback leaving the pendingNotifications entry in place
TimerExpires_KeepEntry(t) ==
    /\ t \in timers
    /\ timers' = timers \ {t}
    /\ UNCHANGED pendingNotifications
    /\ IF ~StillIdle(t.sessionID)
       THEN UNCHANGED inflight
       ELSE inflight' = inflight (+) SetToBag({[kind |-> "idle",
                                               sessionID |-> t.sessionID,
                                               directory |-> t.directory,
                                               questionKey |-> <<>>,
                                               questionText |-> Null,
                                               edge |-> t.edge]})
    /\ UNCHANGED <<now, sessionState, knownSubagents, notifiedQuestions, sent, causes,
                   lastObserved, scheduled, asked>>
    /\ settled' = settled \cup Quiescent'
    /\ orphans' = OrphansAfter
    /\ UNCHANGED <<active, budget, clientVars, streamVars, notifierVars>>

\* the setTimeout callback up to `await sseClient.fetchSessionInfo`
TimerExpires(t) ==
    /\ t \in timers
    /\ timers' = timers \ {t}
    /\ pendingNotifications' = MapDelete(pendingNotifications, t.sessionID)
    /\ IF ~StillIdle(t.sessionID)
       THEN UNCHANGED inflight
       ELSE inflight' = inflight (+) SetToBag({[kind |-> "idle",
                                               sessionID |-> t.sessionID,
                                               directory |-> t.directory,
                                               questionKey |-> <<>>,
                                               questionText |-> Null,
                                               edge |-> t.edge]})
    /\ UNCHANGED <<now, sessionState, knownSubagents, notifiedQuestions, sent, causes,
                   lastObserved, scheduled, asked>>
    /\ settled' = settled \cup Quiescent'
    /\ orphans' = OrphansAfter
    /\ UNCHANGED <<active, budget, clientVars, streamVars, notifierVars>>

\* the setTimeout callback after fetchSessionInfo has resolved; ok tells
\* whether the request succeeded
IdleLookupReturns(c, ok) ==
    /\ BagIn(c, inflight)
    /\ c.kind = "idle"
    /\ inflight' = inflight (-) SetToBag({c})
    /\ LET sessionInfo == fetchSessionInfo(c.sessionID, ok)
       IN  IF HasParent(sessionInfo)
           THEN /\ knownSubagents' = knownSubagents \cup {c.sessionID}
                /\ UNCHANGED <<sent, causes>>
           ELSE /\ sent' = Append(sent, IdleNotification(c.sessionID, c.directory,
                                                         sessionInfo))
                /\ causes' = Caused(c.edge)
                /\ UNCHANGED knownSubagents
    /\ UNCHANGED <<now, sessionState, pendingNotifications, notifiedQuestions,
                   timers, lastObserved, scheduled, asked>>
    /\ settled' = settled \cup Quiescent'
    /\ orphans' = OrphansAfter
    /\ UNCHANGED <<active, budget, clientVars, streamVars, notifierVars>>

\* the threshold compared with >= instead of >
Stale_Inclusive(m, t) == {s \in DOMAIN m : t - m[s].lastSeen >= SESSION_TTL_MS}

\* entries the session cleanup removes
Stale(m, t) == {s \in DOMAIN m : t - m[s].lastSeen > SESSION_TTL_MS}

\* the sweep also cancelling the timers of the sessions it reclaims
SessionCleanup_CancelsTimers ==
    /\ sessionState' = [s \in (DOMAIN sessionState) \ Stale(sessionState, now)
                            |-> sessionState[s]]
    /\ knownSubagents' = knownSubagents \ Stale(sessionState, now)
    /\ timers' = {t \in timers : t.sessionID \notin Stale(sessionState, now)}
    /\ pendingNotifications' =
            [s \in (DOMAIN pendingNotifications) \ Stale(sessionState, now)
                |-> pendingNotifications[s]]
    /\ UNCHANGED <<now, notifiedQuestions,
                   inflight, sent, causes, lastObserved, scheduled, asked>>
    /\ settled' = settled \cup Quiescent'
    /\ orphans' = OrphansAfter
    /\ UNCHANGED <<active, budget, clientVars, streamVars, notifierVars>>

\* session cleanup setInterval callback
SessionCleanup ==
    /\ sessionState' = [s \in (DOMAIN sessionState) \ Stale(sessionState, now)
                            |-> sessionState[s]]
    /\ knownSubagents' = knownSubagents \ Stale(sessionState, now)
    /\ UNCHANGED <<now, pendingNotifications, notifiedQuestions, timers,
                   inflight, sent, causes, lastObserved, scheduled, asked>>
    /\ settled' = settled \cup Quiescent'
    /\ orphans' = OrphansAfter
    /\ UNCHANGED <<active, budget, clientVars, streamVars, notifierVars>>

\* the handler without the test for the running state
OnQuestionTool_AnyStatus(sessionID, toolState, directory) ==
    /\ IF \/ sessionID \in knownSubagents
          \/ QuestionKey(sessionID, QuestionTextOf(toolState.input))
                \in DOMAIN notifiedQuestions
       THEN UNCHANGED <<inflight, asked>>
       ELSE /\ asked < budget.questions
            /\ asked' = asked + 1
            /\ inflight' = inflight (+) SetToBag({[kind |-> "question",
                            sessionID |-> sessionID,
                            directory |-> directory,
                            questionKey |-> QuestionKey(sessionID,
                                                QuestionTextOf(toolState.input)),
                            questionText |-> QuestionTextOf(toolState.input),
                            edge |-> 0]})
    /\ UNCHANGED <<now, sessionState, pendingNotifications, knownSubagents,
                   notifiedQuestions, timers, sent, causes, lastObserved, scheduled>>
    /\ settled' = settled \cup Quiescent'
    /\ orphans' = OrphansAfter
    /\ UNCHANGED <<active, budget, clientVars, streamVars, notifierVars>>

\* sseClient.onQuestionTool handler up to `await sseClient.fetchSessionInfo`
OnQuestionTool(sessionID, toolState, directory) ==
    /\ IF \/ toolState.status # "running"
          \/ sessionID \in knownSubagents
          \/ QuestionKey(sessionID, QuestionTextOf(toolState.input))
                \in DOMAIN notifiedQuestions
       THEN UNCHANGED <<inflight, asked>>
       ELSE /\ asked < budget.questions
            /\ asked' = asked + 1
            /\ inflight' = inflight (+) SetToBag({[kind |-> "question",
                            sessionID |-> sessionID,
                            directory |-> directory,
                            questionKey |-> QuestionKey(sessionID,
                                                QuestionTextOf(toolState.input)),
                            questionText |-> QuestionTextOf(toolState.input),
                            edge |-> 0]})
    /\ UNCHANGED <<now, sessionState, pendingNotifications, knownSubagents,
                   notifiedQuestions, timers, sent, causes, lastObserved, scheduled>>
    /\ settled' = settled \cup Quiescent'
    /\ orphans' = OrphansAfter
    /\ UNCHANGED <<active, budget, clientVars, streamVars, notifierVars>>

\* sseClient.onQuestionTool handler after fetchSessionInfo has resolved; ok
\* tells whether the request succeeded
QuestionLookupReturns(c, ok) ==
    /\ BagIn(c, inflight)
    /\ c.kind = "question"
    /\ inflight' = inflight (-) SetToBag({c})
    /\ LET sessionInfo == fetchSessionInfo(c.sessionID, ok)
       IN  IF HasParent(sessionInfo)
           THEN /\ knownSubagents' = knownSubagents \cup {c.sessionID}
                /\ UNCHANGED <<notifiedQuestions, sent, causes>>
           ELSE /\ notifiedQuestions' = MapSet(notifiedQuestions, c.questionKey, now)
                /\ sent' = Append(sent, QuestionNotification(c.sessionID, c.directory,
                                                sessionInfo, c.questionText))
                /\ causes' = Caused(c.edge)
                /\ UNCHANGED knownSubagents
    /\ UNCHANGED <<now, sessionState, pendingNotifications, timers,
                   lastObserved, scheduled, asked>>
    /\ settled' = settled \cup Quiescent'
    /\ orphans' = OrphansAfter
    /\ UNCHANGED <<active, budget, clientVars, streamVars, notifierVars>>

\* question cleanup setInterval callback
QuestionCleanup ==
    /\ notifiedQuestions' =
            [k \in {x \in DOMAIN notifiedQuestions :
                        ~(now - notifiedQuestions[x] > QUESTION_TTL_MS)}
                |-> notifiedQuestions[k]]
    /\ UNCHANGED <<now, sessionState, pendingNotifications, knownSubagents,
                   timers, inflight, sent, causes, lastObserved, scheduled, asked>>
    /\ settled' = settled \cup Quiescent'
    /\ orphans' = OrphansAfter
    /\ UNCHANGED <<active, budget, clientVars, streamVars, notifierVars>>

\* processEvent hands a session.status event to the handler
StatusEvent ==
    \E s \in active, st \in StatusTypes, d \in Directories :
        OnSessionStatus(s, st, d)

\* processEvent hands a question tool part to the handler
QuestionEvent ==
    \E s \in active, ts \in ToolStates, d \in Directories :
        OnQuestionTool(s, ts, d)

\* the runtime runs the callback of a live timer
TimerFires == \E t \in timers : TimerExpires(t)

\* a lookup made by a timer callback resolves
IdleLookupDone ==
    \E c \in BagToSet(inflight), ok \in BOOLEAN : IdleLookupReturns(c, ok)

\* a lookup made by the question handler resolves
QuestionLookupDone ==
    \E c \in BagToSet(inflight), ok \in BOOLEAN : QuestionLookupReturns(c, ok)

Next ==
    \/ Tick
    \/ StatusEvent
    \/ TimerFires
    \/ IdleLookupDone
    \/ SessionCleanup
    \/ QuestionEvent
    \/ QuestionLookupDone
    \/ QuestionCleanup

\* one session is reported on: the top-level one or the subagent
Spec == Init /\ [][Next]_vars

\* both sessions are reported on
InitPair ==
    /\ now = 0
    /\ sessionState = EmptyMap
    /\ pendingNotifications = EmptyMap
    /\ knownSubagents = {}
    /\ notifiedQuestions = EmptyMap
    /\ timers = {}
    /\ inflight = EmptyBag
    /\ sent = <<>>
    /\ causes = <<>>
    /\ lastObserved = [s \in SessionIDs |-> Undefined]
    /\ scheduled = [s \in SessionIDs |-> 0]
    /\ asked = 0
    /\ settled = {}
    /\ orphans = {}
    /\ active = SessionIDs
    /\ budget = [timers |-> MaxTimers, questions |-> MaxQuestions,
                 numbered |-> FALSE]
    /\ ClientConstructed
    /\ DecoderConstructed
    /\ NotifierConstructed(NoProvider)

SpecPair == InitPair /\ [][Next]_vars

\* one session is reported on and the question tool is used repeatedly
InitAsk ==
    /\ now = 0
    /\ sessionState = EmptyMap
    /\ pendingNotifications = EmptyMap
    /\ knownSubagents = {}
    /\ notifiedQuestions = EmptyMap
    /\ timers = {}
    /\ inflight = EmptyBag
    /\ sent = <<>>
    /\ causes = <<>>
    /\ lastObserved = [s \in SessionIDs |-> Undefined]
    /\ scheduled = [s \in SessionIDs |-> 0]
    /\ asked = 0
    /\ settled = {}
    /\ orphans = {}
    /\ active \in {{s} : s \in SessionIDs}
    /\ budget = [timers |-> MaxAskTimers, questions |-> MaxAsks,
                 numbered |-> FALSE]
    /\ ClientConstructed
    /\ DecoderConstructed
    /\ NotifierConstructed(NoProvider)

SpecAsk == InitAsk /\ [][Next]_vars

\* one session is reported on, and the timers are numbered so that every
\* notification can be traced to the setTimeout call it stems from
InitOrder ==
    /\ now = 0
    /\ sessionState = EmptyMap
    /\ pendingNotifications = EmptyMap
    /\ knownSubagents = {}
    /\ notifiedQuestions = EmptyMap
    /\ timers = {}
    /\ inflight = EmptyBag
    /\ sent = <<>>
    /\ causes = <<>>
    /\ lastObserved = [s \in SessionIDs |-> Undefined]
    /\ scheduled = [s \in SessionIDs |-> 0]
    /\ asked = 0
    /\ settled = {}
    /\ orphans = {}
    /\ active \in {{s} : s \in SessionIDs}
    /\ budget = [timers |-> MaxTimers, questions |-> MaxQuestions,
                 numbered |-> TRUE]
    /\ ClientConstructed
    /\ DecoderConstructed
    /\ NotifierConstructed(NoProvider)

SpecOrder == InitOrder /\ [][Next]_vars

\* --------------------------------------------------------------- SSEClient
\* connection attempts one run of start() makes
MaxAttempts == 8

\* calls of stop() in one run
MaxStops == 2

maxReconnectDelay == 30000

\* how a fetch of /global/event settles: a 2xx response with a body, a
\* non-2xx response, a response without body, or a rejection (network error
\* or abort)
FetchOutcomes == {"ok", "notOk", "noBody", "rejected"}

\* how reader.read() settles: a chunk, the end of the stream, or a rejection
\* (network error or abort)
ReadOutcomes == {"value", "done", "rejected"}

Min(a, b) == IF a < b THEN a ELSE b

\* the delay doubled without the cap
Backoff_Uncapped(delay) == delay * 2

\* Math.min(this.reconnectDelay * 2, this.maxReconnectDelay)
Backoff(delay) == Min(delay * 2, maxReconnectDelay)

\* the test of `while (this.isRunning)` in start(): another connect(), which
\* runs up to its `await fetch`, or the return of start()
LoopStart(running) ==
    IF running
    THEN /\ attempts < MaxAttempts
         /\ abortController' = [aborted |-> FALSE]
         /\ attempts' = attempts + 1
         /\ pc' = "fetch"
    ELSE /\ pc' = "returned"
         /\ UNCHANGED <<abortController, attempts>>

\* the catch block of start(), up to `await this.sleep(this.reconnectDelay)`
Catch ==
    IF ~isRunning
    THEN /\ pc' = "returned"
         /\ UNCHANGED <<sleepFor, failures, abortController, attempts>>
    ELSE /\ pc' = "sleep"
         /\ sleepFor' = reconnectDelay
         /\ failures' = failures + 1
         /\ UNCHANGED <<abortController, attempts>>

\* start() up to the `await fetch` of the first connect()
Start ==
    /\ pc = "idle"
    /\ isRunning' = TRUE
    /\ reconnectDelay' = 1000
    /\ LoopStart(TRUE)
    /\ UNCHANGED <<sleepFor, failures, stops>>
    /\ UNCHANGED <<trackerVars, streamVars, notifierVars>>

\* connect() after its fetch has settled, up to the first `await reader.read()`
FetchSettles(outcome) ==
    /\ pc = "fetch"
    /\ IF outcome = "ok"
       THEN /\ reconnectDelay' = 1000
            /\ failures' = 0
            /\ IF isRunning
               THEN /\ pc' = "read"
                    /\ UNCHANGED <<abortController, attempts>>
               ELSE LoopStart(isRunning)
            /\ UNCHANGED sleepFor
       ELSE /\ Catch
            /\ UNCHANGED reconnectDelay
    /\ UNCHANGED <<isRunning, stops>>
    /\ UNCHANGED <<trackerVars, streamVars, notifierVars>>

\* the read loop of connect() after reader.read() has settled
ReadSettles(outcome) ==
    /\ pc = "read"
    /\ CASE outcome = "value" ->
                /\ IF isRunning
                   THEN /\ pc' = "read"
                        /\ UNCHANGED <<abortController, attempts>>
                   ELSE LoopStart(isRunning)
                /\ UNCHANGED <<sleepFor, failures>>
         [] outcome = "done" ->
                /\ LoopStart(isRunning)
                /\ UNCHANGED <<sleepFor, failures>>
         [] outcome = "rejected" -> Catch
    /\ UNCHANGED <<isRunning, reconnectDelay, stops>>
    /\ UNCHANGED <<trackerVars, streamVars, notifierVars>>

\* start() after its sleep
SleepDone ==
    /\ pc = "sleep"
    /\ reconnectDelay' = Backoff(reconnectDelay)
    /\ LoopStart(isRunning)
    /\ UNCHANGED <<isRunning, sleepFor, failures, stops>>
    /\ UNCHANGED <<trackerVars, streamVars, notifierVars>>

\* stop() without the abort
Stop_NoAbort ==
    /\ stops < MaxStops
    /\ stops' = stops + 1
    /\ isRunning' = FALSE
    /\ UNCHANGED abortController
    /\ UNCHANGED <<reconnectDelay, pc, sleepFor, attempts, failures>>
    /\ UNCHANGED <<trackerVars, streamVars, notifierVars>>

\* stop()
Stop ==
    /\ stops < MaxStops
    /\ stops' = stops + 1
    /\ isRunning' = FALSE
    /\ abortController' = IF abortController = Null
                          THEN Null ELSE [aborted |-> TRUE]
    /\ UNCHANGED <<reconnectDelay, pc, sleepFor, attempts, failures>>
    /\ UNCHANGED <<trackerVars, streamVars, notifierVars>>

\* the fetch of connect() settles
FetchDone == \E outcome \in FetchOutcomes : FetchSettles(outcome)

\* the read of the read loop settles
ReadDone == \E outcome \in ReadOutcomes : ReadSettles(outcome)

\* the tracker as constructed by main(), no event delivered
TrackerConstructed ==
    /\ now = 0
    /\ sessionState = EmptyMap
    /\ pendingNotifications = EmptyMap
    /\ knownSubagents = {}
    /\ notifiedQuestions = EmptyMap
    /\ timers = {}
    /\ inflight = EmptyBag
    /\ sent = <<>>
    /\ causes = <<>>
    /\ lastObserved = [s \in SessionIDs |-> Undefined]
    /\ scheduled = [s \in SessionIDs |-> 0]
    /\ asked = 0
    /\ settled = {}
    /\ orphans = {}
    /\ active = {}
    /\ budget = [timers |-> MaxTimers, questions |-> MaxQuestions,
                 numbered |-> FALSE]

InitClient ==
    /\ ClientConstructed
    /\ DecoderConstructed
    /\ NotifierConstructed(NoProvider)
    /\ TrackerConstructed

NextClient ==
    \/ Start
    \/ FetchDone
    \/ ReadDone
    \/ SleepDone
    \/ Stop

\* the connection loop of one SSEClient
SpecClient == InitClient /\ [][NextClient]_vars

\* a request or read whose controller was aborted rejects
AbortedSettles ==
    /\ abortController # Null
    /\ abortController.aborted
    /\ (FetchSettles("rejected") \/ ReadSettles("rejected"))

\* the connection loop with the runtime settling aborted requests and reads
\* and firing the timer of sleep()
SpecClientLive ==
    /\ InitClient
    /\ [][NextClient]_vars
    /\ WF_vars(AbortedSettles)
    /\ WF_vars(SleepDone)

\* ---------------------------------------------------------- stream decoder
\* connections one run opens
MaxConnections == 2

\* frames the server sends on one connection
MaxFrames == 2

Whitespace == {" ", "\t", "\r"}

DataPrefix == <<"d", "a", "t", "a", ":">>

\* The texts the server puts on data: lines, one character standing for one
\* piece of JSON text:
\*   E  an envelope with an idle session.status event
\*   A  the first half, B the second half of an envelope with a busy one
\*   Q  an envelope with a running question tool part
\*   N  an envelope without directory, its payload an idle session.status event
\*   P  an envelope without payload
\*   Z  text that is not JSON
FrameLines ==
    {<< DataPrefix \o <<" ", "E">> >>,
     << DataPrefix \o <<"A">>, DataPrefix \o <<"B">> >>,
     << DataPrefix \o <<"Q">> >>,
     << DataPrefix \o <<"N", " ">> >>,
     << DataPrefix \o <<"P">> >>,
     << DataPrefix \o <<"Z">> >>,
     << <<":">> >>}

\* the lines joined, each one followed by a line feed
RECURSIVE Unlines(_)
Unlines(lines) ==
    IF lines = <<>> THEN <<>>
    ELSE Head(lines) \o <<"\n">> \o Unlines(Tail(lines))

\* a frame on the wire: its lines and the empty line that ends it
FrameTexts == {Unlines(f \o << <<>> >>) : f \in FrameLines}

RECURSIVE StreamsOf(_)
StreamsOf(n) ==
    IF n = 0 THEN {<<>>}
    ELSE LET shorter == StreamsOf(n - 1)
         IN  shorter \cup {t \o f : t \in shorter, f \in FrameTexts}

\* what the server sends on one connection
Streams == StreamsOf(MaxFrames)

SyntaxError == [error |-> "SyntaxError"]

StatusPayload(type) ==
    [type |-> "session.status",
     properties |-> [sessionID |-> "s1", status |-> [type |-> type]]]

QuestionPayload ==
    [type |-> "message.part.updated",
     properties |-> [part |-> [type |-> "tool", tool |-> "question",
                               sessionID |-> "s1",
                               state |-> [status |-> "running", input |-> Null]]]]

\* JSON.parse: the value of a text, SyntaxError for a text that is not JSON
JSONParse(data) ==
    CASE data = <<"E">> -> [directory |-> "/p", payload |-> StatusPayload("idle")]
      [] data = <<"A", "B">> -> [directory |-> "/p", payload |-> StatusPayload("busy")]
      [] data = <<"Q">> -> [directory |-> "/p", payload |-> QuestionPayload]
      [] data = <<"N">> -> [payload |-> StatusPayload("idle")]
      [] data = <<"P">> -> [directory |-> "/p"]
      [] OTHER -> SyntaxError

\* String.prototype.startsWith
StartsWith(str, prefix) ==
    /\ Len(str) >= Len(prefix)
    /\ SubSeq(str, 1, Len(prefix)) = prefix

\* String.prototype.trim
RECURSIVE Trim(_)
Trim(str) ==
    IF str = <<>> THEN <<>>
    ELSE IF Head(str) \in Whitespace THEN Trim(Tail(str))
    ELSE IF str[Len(str)] \in Whitespace THEN Trim(SubSeq(str, 1, Len(str) - 1))
    ELSE str

\* String.prototype.split("\n")
RECURSIVE Split(_)
Split(str) ==
    IF \A i \in 1..Len(str) : str[i] # "\n"
    THEN <<str>>
    ELSE LET i == CHOOSE k \in 1..Len(str) :
                      /\ str[k] = "\n"
                      /\ \A j \in 1..(k - 1) : str[j] # "\n"
         IN  <<SubSeq(str, 1, i - 1)>> \o Split(SubSeq(str, i + 1, Len(str)))

\* processEvent: the handler calls it makes for one frame; an exception
\* (JSON.parse, a property read on undefined) is caught and logged
processEvent(data) ==
    LET globalEvent == JSONParse(data)
    IN  IF globalEvent = SyntaxError THEN <<>>
        ELSE IF "payload" \notin DOMAIN globalEvent THEN <<>>
        ELSE LET payload == globalEvent.payload
                 directory == IF "directory" \in DOMAIN globalEvent
                              THEN globalEvent.directory ELSE Undefined
             IN  IF payload.type = "session.status"
                 THEN IF \/ "properties" \notin DOMAIN payload
                         \/ "status" \notin DOMAIN payload.properties
                      THEN <<>>
                      ELSE <<[handler |-> "onSessionStatus",
                              args |-> <<payload>>,
                              directory |-> directory]>>
                 ELSE IF payload.type = "message.part.updated"
                 THEN IF \/ "properties" \notin DOMAIN payload
                         \/ "part" \notin DOMAIN payload.properties
                      THEN <<>>
                      ELSE LET part == payload.properties.part
                           IN  IF part.type = "tool" /\ part.tool = "question"
                               THEN <<[handler |-> "onQuestionTool",
                                       args |-> <<part.sessionID, part.state>>,
                                       directory |-> directory]>>
                               ELSE <<>>
                 ELSE <<>>

\* the handler calls of a frame, each with the number of the frame
Numbered(calls, n) == [i \in 1..Len(calls) |-> [call |-> calls[i], frame |-> n]]

\* the line processor joining the data: lines of a frame with a line feed, as
\* the event stream format has it
processLine_Separator(line, d) ==
    IF StartsWith(line, DataPrefix)
    THEN [d EXCEPT !.data = IF @ = <<>> THEN Trim(SubSeq(line, 6, Len(line)))
                            ELSE @ \o <<"\n">> \o Trim(SubSeq(line, 6, Len(line)))]
    ELSE IF line = <<>> /\ d.data # <<>>
    THEN [data |-> <<>>,
          processed |-> Append(d.processed, d.data),
          emitted |-> d.emitted \o Numbered(processEvent(d.data),
                                            Len(d.processed) + 1)]
    ELSE d

\* processLine on a decoder state d = [data, processed, emitted]
processLine(line, d) ==
    IF StartsWith(line, DataPrefix)
    THEN [d EXCEPT !.data = @ \o Trim(SubSeq(line, 6, Len(line)))]
    ELSE IF line = <<>> /\ d.data # <<>>
    THEN [data |-> <<>>,
          processed |-> Append(d.processed, d.data),
          emitted |-> d.emitted \o Numbered(processEvent(d.data),
                                            Len(d.processed) + 1)]
    ELSE d

\* `for (const line of lines) this.processLine(line)`
RECURSIVE processLines(_, _)
processLines(lines, d) ==
    IF lines = <<>> THEN d
    ELSE processLines(Tail(lines), processLine(Head(lines), d))

\* the remainder thrown away instead of kept
Remainder_Dropped(lines) == <<>>

\* `buffer = lines.pop() || ""`: what follows the last line feed
Remainder(lines) == lines[Len(lines)]

\* connect() from `const reader = response.body.getReader()` to the first read
Connect(stream) ==
    /\ ~connected
    /\ connections < MaxConnections
    /\ connections' = connections + 1
    /\ connected' = TRUE
    /\ wire' = stream
    /\ buffer' = <<>>
    /\ received' = <<>>
    /\ carried' = currentEventData
    /\ processed' = <<>>
    /\ emitted' = <<>>
    /\ spanned' = FALSE
    /\ UNCHANGED currentEventData
    /\ UNCHANGED <<handlerVars, trackerVars, clientVars, notifierVars>>

\* one pass of the read loop with a chunk of n characters
ReadChunk(n) ==
    /\ connected
    /\ n \in 1..Len(wire)
    /\ LET value == SubSeq(wire, 1, n)
           lines == Split(buffer \o value)
           d == processLines(SubSeq(lines, 1, Len(lines) - 1),
                             [data |-> currentEventData,
                              processed |-> processed,
                              emitted |-> emitted])
       IN  /\ wire' = SubSeq(wire, n + 1, Len(wire))
           /\ received' = received \o value
           /\ buffer' = Remainder(lines)
           /\ currentEventData' = d.data
           /\ processed' = d.processed
           /\ emitted' = d.emitted
           /\ spanned' = (spanned \/ (buffer # <<>> /\ Len(lines) > 1))
    /\ UNCHANGED <<connected, connections, carried>>
    /\ UNCHANGED <<handlerVars, trackerVars, clientVars, notifierVars>>

\* the read loop ends: the stream is done, or the read rejects
StreamEnds ==
    /\ connected
    /\ connected' = FALSE
    /\ wire' = <<>>
    /\ buffer' = <<>>
    /\ UNCHANGED <<currentEventData, connections, received, carried,
                   processed, emitted, spanned>>
    /\ UNCHANGED <<handlerVars, trackerVars, clientVars, notifierVars>>

\* a connection is opened
Connects == \E stream \in Streams : Connect(stream)

\* a chunk arrives
Reads == \E n \in 1..Len(wire) : ReadChunk(n)

InitStream ==
    /\ DecoderConstructed
    /\ NotifierConstructed(NoProvider)
    /\ ClientConstructed
    /\ TrackerConstructed

NextStream ==
    \/ Connects
    \/ Reads
    \/ StreamEnds

\* the decoder over the connections of one run
SpecStream == InitStream /\ [][NextStream]_vars

\* ----------------------------------------------------------- handler lists
\* handlers one run registers with onSessionStatus
MaxHandlers == 3

\* session.status events one run decodes
MaxEvents == 2

\* what a handler does when called: it returns, it returns a promise that
\* rejects later (an async function that fails), or it throws
HandlerKinds == {"returns", "rejects", "throws"}

\* `for (const handler of this.eventHandlers) handler(statusEvent, directory)`
\* in the try block of processEvent: the indices of the handlers called, in
\* order; an exception leaves the loop for the catch block
RECURSIVE InvokeFrom(_, _)
InvokeFrom(handlers, i) ==
    IF i > Len(handlers) THEN <<>>
    ELSE IF handlers[i] = "throws" THEN <<i>>
    ELSE <<i>> \o InvokeFrom(handlers, i + 1)

\* SSEClient.onSessionStatus
onSessionStatus(handler) ==
    /\ Len(eventHandlers) < MaxHandlers
    /\ eventHandlers' = Append(eventHandlers, handler)
    /\ UNCHANGED deliveries
    /\ UNCHANGED <<decoderVars, trackerVars, clientVars, notifierVars>>

\* processEvent on a decoded session.status event
DispatchStatus ==
    /\ Len(deliveries) < MaxEvents
    /\ deliveries' = Append(deliveries,
                            [registered |-> Len(eventHandlers),
                             called |-> InvokeFrom(eventHandlers, 1)])
    /\ UNCHANGED eventHandlers
    /\ UNCHANGED <<decoderVars, trackerVars, clientVars, notifierVars>>

\* index.ts or another caller registers a handler
Registers == \E h \in HandlerKinds : onSessionStatus(h)

InitHandlers ==
    /\ DecoderConstructed
    /\ NotifierConstructed(NoProvider)
    /\ ClientConstructed
    /\ TrackerConstructed

NextHandlers ==
    \/ Registers
    \/ DispatchStatus

\* registration and dispatch over one run
SpecHandlers == InitHandlers /\ [][NextHandlers]_vars

\* ---------------------------------------------------------------- Notifier
\* the elements of a sequence
Range(seq) == {seq[i] : i \in 1..Len(seq)}

\* Promise.all: rejected with the first rejection
Combined_All(promises) ==
    IF \E p \in DOMAIN promises : promises[p] = "rejected" THEN "rejected"
    ELSE IF \E p \in DOMAIN promises : promises[p] = "pending" THEN "pending"
    ELSE "fulfilled"

\* Promise.allSettled: fulfilled once no promise is pending, never rejected
Combined(promises) ==
    IF \E p \in DOMAIN promises : promises[p] = "pending"
    THEN "pending" ELSE "fulfilled"

\* the promises of the async callbacks send() mapped over this.providers
Callbacks(n) == [p \in Range(providers) |-> delivery[n][p]]

\* send() up to `await Promise.allSettled`: the callback of every provider of
\* this.providers runs up to its `await provider.send(notification)`
Send(n) ==
    /\ sendStatus[n] = "notCalled"
    /\ \A m \in 1..(n - 1) : sendStatus[m] # "notCalled"
    /\ sendStatus' = [sendStatus EXCEPT ![n] = "pending"]
    /\ invoked' = [invoked EXCEPT ![n] =
                      [p \in ProviderTypes |->
                          IF p \in Range(providers) THEN @[p] + 1 ELSE @[p]]]
    /\ delivery' = [delivery EXCEPT ![n] =
                      [p \in ProviderTypes |->
                          IF p \in Range(providers) THEN "pending" ELSE @[p]]]
    /\ UNCHANGED <<configured, providers, reported>>
    /\ UNCHANGED <<trackerVars, clientVars, streamVars>>

\* provider.send settles; the callback logs and, on a rejection, rethrows
ProviderSettles(n, p, ok) ==
    /\ delivery[n][p] = "pending"
    /\ delivery' = [delivery EXCEPT ![n][p] = IF ok THEN "fulfilled" ELSE "rejected"]
    /\ UNCHANGED <<configured, providers, sendStatus, invoked, reported>>
    /\ UNCHANGED <<trackerVars, clientVars, streamVars>>

\* send() after its await: the failures are counted and logged
SendReturns(n) ==
    /\ sendStatus[n] = "pending"
    /\ Combined(Callbacks(n)) # "pending"
    /\ IF Combined(Callbacks(n)) = "rejected"
       THEN /\ sendStatus' = [sendStatus EXCEPT ![n] = "rejected"]
            /\ UNCHANGED reported
       ELSE /\ sendStatus' = [sendStatus EXCEPT ![n] = "resolved"]
            /\ reported' = [reported EXCEPT ![n] =
                    Cardinality({p \in Range(providers) : delivery[n][p] = "rejected"})]
    /\ UNCHANGED <<configured, providers, invoked, delivery>>
    /\ UNCHANGED <<trackerVars, clientVars, streamVars>>

\* a handler calls notifier.send
Sends == \E n \in 1..MaxSends : Send(n)

\* a delivery settles
Delivers ==
    \E n \in 1..MaxSends, p \in ProviderTypes, ok \in BOOLEAN :
        ProviderSettles(n, p, ok)

\* a call of notifier.send settles
Returns == \E n \in 1..MaxSends : SendReturns(n)

InitNotifier ==
    /\ \E enabled \in [ProviderTypes -> BOOLEAN] : NotifierConstructed(enabled)
    /\ DecoderConstructed
    /\ ClientConstructed
    /\ TrackerConstructed

NextNotifier ==
    \/ Sends
    \/ Delivers
    \/ Returns

\* one Notifier over the configurations of three providers
SpecNotifier == InitNotifier /\ [][NextNotifier]_vars

\* ------------------------------------------------------------------ claims
NonIdle == {"busy", "retry"}

\* the step is the session.status handler run on an observation of s
Observes(s, st) == \E d \in Directories : OnSessionStatus(s, st, d)

\* the step starts a debounce timer for s
Schedules(s) == \E t \in timers' \ timers : t.sessionID = s

\* C1 (as stated): the handler schedules a debounced notification for an
\* observation exactly when the observation is idle and the observation of
\* the same session before it was busy or retry.
C1_ScheduleIffEdge ==
    [][\A s \in SessionIDs, st \in StatusTypes :
          Observes(s, st) =>
             (Schedules(s) <=> (st = "idle" /\ lastObserved[s] \in NonIdle))]_vars

\* C1 (amended): the handler schedules a debounced notification for an
\* observation exactly when the observation is idle, the session still has a
\* tracked entry (not reclaimed by the sweep) whose status is busy or retry,
\* and the session is not in the known-subagent set; a first-ever idle
\* observation never schedules one.
C1_ScheduleIffTrackedEdge ==
    [][\A s \in SessionIDs, st \in StatusTypes :
          Observes(s, st) =>
             /\ Schedules(s) <=>
                    /\ st = "idle"
                    /\ StatusOf(sessionState, s) \in NonIdle
                    /\ s \notin knownSubagents
             /\ lastObserved[s] = Undefined => ~Schedules(s)
             /\ Cardinality(timers' \ timers) <= 1]_vars

\* a timer is live, started by the idle observation that followed a busy or
\* retry one, some time into the run
C1_Witness ==
    \E s \in SessionIDs :
        /\ TimersOf(s) # {}
        /\ s \in DOMAIN pendingNotifications
        /\ StatusOf(sessionState, s) = "idle"
        /\ s \notin knownSubagents
        /\ scheduled[s] = 1
        /\ sessionState[s].lastSeen > 0

\* C2: an idle observation of a session without a tracked entry records the
\* entry and starts no timer, no lookup and no notification; whenever a timer
\* is started, it is by an idle observation that follows a busy or retry
\* observation of the same session.
C2_InitialIdleNeverSchedules ==
    [][/\ \A s \in SessionIDs :
            (Observes(s, "idle") /\ s \notin DOMAIN sessionState) =>
                /\ s \in DOMAIN sessionState'
                /\ sessionState'[s] = [status |-> "idle", lastSeen |-> now]
                /\ timers' = timers
                /\ pendingNotifications' = pendingNotifications
                /\ inflight' = inflight
                /\ sent' = sent
       /\ \A t \in timers' \ timers :
            /\ lastObserved[t.sessionID] \in NonIdle
            /\ lastObserved'[t.sessionID] = "idle"]_vars

\* a session first seen idle: tracked as idle, nothing ever scheduled for it
C2_Witness ==
    \E s \in SessionIDs :
        /\ StatusOf(sessionState, s) = "idle"
        /\ lastObserved[s] = "idle"
        /\ scheduled[s] = 0
        /\ TimersOf(s) = {}
        /\ CountSent(sent, s, "idle") = 0

\* C3 (as stated): a busy or retry observation of a session that has a pending
\* debounce timer cancels that timer and removes it from the pending map.
C3_NonIdleCancelsPending ==
    [][\A s \in SessionIDs, st \in NonIdle :
          (Observes(s, st) /\ s \in DOMAIN pendingNotifications) =>
             /\ s \notin DOMAIN pendingNotifications'
             /\ TimersOf(s)' = {}]_vars

\* C4: there is at most one live debounce timer per session, and the pending
\* map holds exactly the live timers.
C4_OneTimerPerSession ==
    /\ \A s \in SessionIDs : Cardinality(TimersOf(s)) <= 1
    /\ \A s \in DOMAIN pendingNotifications :
            TimersOf(s) = {t \in timers : t.id = pendingNotifications[s]}
    /\ \A t \in timers :
            /\ t.sessionID \in DOMAIN pendingNotifications
            /\ pendingNotifications[t.sessionID] = t.id

\* a session's second timer is live, the first one being gone
C4_Witness ==
    \E s \in SessionIDs :
        /\ Cardinality(TimersOf(s)) = 1
        /\ scheduled[s] = 2

C7_QuietExpiryNotifies ==
    [][/\ \A t \in timers :
            (TimerExpires(t) /\ lastObserved[t.sessionID] = "idle") =>
                Outstanding(inflight', t.sessionID, "idle")
                    = Outstanding(inflight, t.sessionID, "idle") + 1
       /\ \A c \in BagToSet(inflight), ok \in BOOLEAN :
            (IdleLookupReturns(c, ok)
                /\ ~HasParent(fetchSessionInfo(c.sessionID, ok))) =>
                /\ Len(sent') = Len(sent) + 1
                /\ CountSent(sent', c.sessionID, "idle")
                        = CountSent(sent, c.sessionID, "idle") + 1]_vars

\* C7 (amended): when the timer of a session expires, the last observation of
\* the session is still the idle one that started it and the sweep has not
\* reclaimed the session's entry in the meantime, the callback goes on to the
\* lookup; and when a lookup returns without a parent (top-level session, or
\* failed lookup) exactly one idle notification for the session is handed to
\* the notifier.
C7_QuietTrackedExpiryNotifies ==
    [][/\ \A t \in timers :
            (/\ TimerExpires(t)
             /\ lastObserved[t.sessionID] = "idle"
             /\ t.sessionID \in DOMAIN sessionState) =>
                Outstanding(inflight', t.sessionID, "idle")
                    = Outstanding(inflight, t.sessionID, "idle") + 1
       /\ \A c \in BagToSet(inflight), ok \in BOOLEAN :
            (IdleLookupReturns(c, ok)
                /\ ~HasParent(fetchSessionInfo(c.sessionID, ok))) =>
                /\ Len(sent') = Len(sent) + 1
                /\ sent'[Len(sent')].type = "idle"
                /\ sent'[Len(sent')].sessionId = c.sessionID
                /\ CountSent(sent', c.sessionID, "idle")
                        = CountSent(sent, c.sessionID, "idle") + 1]_vars

\* busy then idle was observed for a session, nothing else, and exactly one
\* idle notification for it has been handed over
C7_Witness ==
    \E s \in SessionIDs :
        /\ scheduled[s] = 1
        /\ lastObserved[s] = "idle"
        /\ CountSent(sent, s, "idle") = 1
        /\ TimersOf(s) = {}
        /\ Outstanding(inflight, s, "idle") = 0

\* C8: a timer callback that finds the tracked status of its session not idle,
\* or finds no entry, removes its timer and pending entry and returns: no
\* lookup is started, nothing is dispatched, nothing is marked.
C8_ExpiryRechecksStatus ==
    [][\A t \in timers :
          (TimerExpires(t) /\ StatusOf(sessionState, t.sessionID) # "idle") =>
             /\ inflight' = inflight
             /\ sent' = sent
             /\ knownSubagents' = knownSubagents
             /\ t \notin timers'
             /\ t.sessionID \notin DOMAIN pendingNotifications']_vars

\* a timer is live while the tracked status of its session is not idle
C8_Witness ==
    \E t \in timers : StatusOf(sessionState, t.sessionID) # "idle"

\* C9: a run of the sweep removes exactly the entries older than one hour,
\* with their subagent marking, and leaves every other entry and its marking
\* as they are.
C9_SweepRemovesExactlyStale ==
    [][SessionCleanup =>
          \A s \in DOMAIN sessionState :
             IF now - sessionState[s].lastSeen > 3600000
             THEN /\ s \notin DOMAIN sessionState'
                  /\ s \notin knownSubagents'
             ELSE /\ s \in DOMAIN sessionState'
                  /\ sessionState'[s] = sessionState[s]
                  /\ (s \in knownSubagents') <=> (s \in knownSubagents)]_vars

\* one observed session has been reclaimed while another, seen exactly one
\* hour before, is still tracked
C9_Witness ==
    \E s, o \in SessionIDs :
        /\ lastObserved[s] # Undefined
        /\ s \notin DOMAIN sessionState
        /\ o \in DOMAIN sessionState
        /\ now - sessionState[o].lastSeen = 3600000

\* C10 (as stated): every session in the known-subagent set has a tracked
\* entry.
C10_MarkedImpliesTracked == knownSubagents \subseteq DOMAIN sessionState

\* C11: every session.status observation records the observed status with
\* lastSeen set to the current time, whatever the handler then decides (new
\* session, unchanged status, became idle, became busy, known subagent); the
\* lastSeen of an entry never decreases and is never ahead of the clock.
C11_ObservationStampsLastSeen ==
    [][/\ \A s \in SessionIDs, st \in StatusTypes :
            Observes(s, st) =>
                /\ s \in DOMAIN sessionState'
                /\ sessionState'[s] = [status |-> st, lastSeen |-> now]
       /\ \A s \in (DOMAIN sessionState) \cap (DOMAIN sessionState') :
            sessionState'[s].lastSeen >= sessionState[s].lastSeen
       /\ \A s \in DOMAIN sessionState' :
            sessionState'[s].lastSeen <= now']_vars

\* a known subagent was observed busy at the current time, later than the
\* start of the run, while its timer stayed pending
C11_Witness ==
    \E s \in knownSubagents :
        /\ s \in DOMAIN pendingNotifications
        /\ StatusOf(sessionState, s) \in NonIdle
        /\ sessionState[s].lastSeen = now
        /\ now > 0

\* the delay the claim gives for the sleep after the k-th consecutive failure
ClaimedDelay(k) ==
    CASE k = 1 -> 1000
      [] k = 2 -> 2000
      [] k = 3 -> 4000
      [] k = 4 -> 8000
      [] k = 5 -> 16000
      [] OTHER -> 30000

\* C12: the sleep after the k-th consecutive failure lasts 1000, 2000, 4000,
\* 8000, 16000 ms and 30000 ms from the sixth on; a successful connection
\* (2xx response with a body) resets the next delay to 1000 ms, which is the
\* delay of the sleep that follows when the stream later fails.
C12_BackoffSequence ==
    /\ pc = "sleep" =>
            /\ failures >= 1
            /\ sleepFor = ClaimedDelay(failures)
            /\ reconnectDelay = sleepFor
    /\ pc = "read" =>
            /\ failures = 0
            /\ reconnectDelay = 1000
    /\ pc = "fetch" => reconnectDelay = ClaimedDelay(failures + 1)

\* start() sleeps after the seventh consecutive failure, for 30000 ms as after
\* the sixth
C12_Witness ==
    /\ pc = "sleep"
    /\ failures = 7
    /\ attempts = 7
    /\ sleepFor = 30000

\* C13 (as stated): every connection attempt after the first is started by
\* the step that ends a backoff sleep, whatever way the attempt before it
\* failed (non-2xx response, network error, end of the stream).
C13_SleepBetweenAttempts ==
    [][(attempts' = attempts + 1 /\ attempts >= 1) => pc = "sleep"]_vars

\* start() is suspended in connect() or in its backoff sleep
Suspended == pc \in {"fetch", "read", "sleep"}

\* C14: a call of stop() while start() is connecting, reading or sleeping
\* aborts the controller of the current connection and clears isRunning;
\* from then on no connection attempt is started and isRunning stays clear;
\* start() eventually returns; a further call of stop() changes nothing.
C14_StopEndsClient ==
    /\ [][(Stop /\ Suspended) =>
              /\ ~isRunning'
              /\ abortController' # Null
              /\ abortController'.aborted]_vars
    /\ [][(~isRunning /\ pc # "idle") =>
              /\ attempts' = attempts
              /\ ~isRunning'
              /\ pc' \in {pc, "returned"}]_vars
    /\ [][(Stop /\ ~isRunning /\ pc # "idle") =>
              UNCHANGED <<isRunning, reconnectDelay, abortController, pc,
                          sleepFor, attempts>>]_vars
    /\ ((~isRunning /\ Suspended) ~> (pc = "returned"))

\* stop() has been called twice and start(), stopped during the backoff sleep
\* that followed a failed attempt, has not returned yet
C14_Witness ==
    /\ pc = "sleep"
    /\ ~isRunning
    /\ stops = 2
    /\ attempts >= 2
    /\ abortController # Null
    /\ abortController.aborted

\* what a decoder that starts with data0 as its frame buffer makes of a text
\* taken as a whole: every line that is ended by a line feed, in order
Decoded(text, data0) ==
    LET lines == Split(text)
    IN  processLines(SubSeq(lines, 1, Len(lines) - 1),
                     [data |-> data0, processed |-> <<>>, emitted |-> <<>>])

\* C15 (as stated): the frames decoded on a connection, and the handler calls
\* made for them, are those of the data: lines received on that connection
\* only; a frame left unfinished when the connection before it dropped adds
\* nothing to them.
C15_NoCarryAcrossReconnects ==
    /\ processed = Decoded(received, <<>>).processed
    /\ emitted = Decoded(received, <<>>).emitted

\* a parsed value has the shape { directory, payload: { type } }
ExpectedShape(value) ==
    /\ value # SyntaxError
    /\ "directory" \in DOMAIN value
    /\ "payload" \in DOMAIN value
    /\ "type" \in DOMAIN value.payload

\* the text read on the open connection ends with an empty line
EndsWithEmptyLine(text) ==
    \/ text = <<"\n">>
    \/ /\ Len(text) >= 2
       /\ text[Len(text)] = "\n"
       /\ text[Len(text) - 1] = "\n"

\* C16 (as stated): a handler is called only for a frame whose data is valid
\* JSON with the expected envelope shape; after the empty line that ends a
\* frame, well-formed or not, the frame buffer is empty; and every frame with
\* the expected shape handed to processEvent on the connection, also after a
\* discarded one, has its handler called.
C16_MalformedFrameDiscarded ==
    /\ \A i \in 1..Len(emitted) :
            ExpectedShape(JSONParse(processed[emitted[i].frame]))
    /\ EndsWithEmptyLine(received) => currentEventData = <<>>
    /\ \A i \in 1..Len(processed) :
            ExpectedShape(JSONParse(processed[i])) =>
                \E j \in 1..Len(emitted) : emitted[j].frame = i

\* C17: on one connection the frames handed to processEvent, the handler
\* calls and the frame buffer are those of the text read so far taken as a
\* whole, however it was cut into chunks; what follows the last line feed is
\* kept in `buffer`, unprocessed, until its line feed arrives.
C17_ChunkingIrrelevant ==
    LET whole == Decoded(received, carried)
        lines == Split(received)
    IN  /\ processed = whole.processed
        /\ emitted = whole.emitted
        /\ currentEventData = whole.data
        /\ connected => buffer = lines[Len(lines)]

\* a line that arrived in two chunks has been processed, a frame was
\* dispatched on the connection, and the start of a further line is buffered
C17_Witness ==
    /\ connected
    /\ spanned
    /\ Len(emitted) = 1
    /\ buffer # <<>>
    /\ wire # <<>>

\* the providers of the configuration that are enabled
Enabled == {p \in ProviderTypes : configured[p]}

\* the providers whose delivery of notification n was rejected
Rejected(n) == {p \in ProviderTypes : delivery[n][p] = "rejected"}

\* C18: once send() is called for a notification every enabled provider's
\* send has been invoked for it, whichever of them fail; the promise of send()
\* is never rejected, it resolves only when no delivery is pending any more,
\* and the failure count then reported is the number of rejected deliveries.
C18_FailuresAreIsolated ==
    \A n \in 1..MaxSends :
        /\ sendStatus[n] # "notCalled" =>
                \A p \in Enabled : invoked[n][p] >= 1 /\ delivery[n][p] # "none"
        /\ sendStatus[n] # "rejected"
        /\ sendStatus[n] = "resolved" =>
                /\ \A p \in ProviderTypes : delivery[n][p] # "pending"
                /\ reported[n] = Cardinality(Rejected(n))

\* three enabled providers, one delivery rejected and two fulfilled, send()
\* resolved with one failure reported
C18_Witness ==
    \E n \in 1..MaxSends :
        /\ Enabled = ProviderTypes
        /\ sendStatus[n] = "resolved"
        /\ Cardinality(Rejected(n)) = 1
        /\ Cardinality({p \in ProviderTypes : delivery[n][p] = "fulfilled"}) = 2
        /\ reported[n] = 1

\* C19: for each notification handed to send() the send of every enabled
\* provider is invoked exactly once and that of a disabled provider never,
\* also after a delivery has failed.
C19_OneAttemptPerProvider ==
    \A n \in 1..MaxSends, p \in ProviderTypes :
        invoked[n][p] = IF sendStatus[n] # "notCalled" /\ configured[p] THEN 1 ELSE 0

\* with one provider disabled, both notifications were sent and have
\* resolved, each after a rejected delivery
C19_Witness ==
    /\ Cardinality(Enabled) = 2
    /\ \A n \in 1..MaxSends :
            /\ sendStatus[n] = "resolved"
            /\ Rejected(n) # {}
            /\ \A p \in ProviderTypes \ Enabled : invoked[n][p] = 0

\* C20: when the lookup made after a debounce expiry fails (fetchSessionInfo
\* returns null) the callback still hands exactly one idle notification for the
\* session to the notifier, with the session identifier as title, an empty
\* project id and the directory of the event, and marks nothing.
C20_FailedLookupStillNotifies ==
    [][\A c \in BagToSet(inflight) :
          IdleLookupReturns(c, FALSE) =>
             /\ Len(sent') = Len(sent) + 1
             /\ SubSeq(sent', 1, Len(sent)) = sent
             /\ sent'[Len(sent')].type = "idle"
             /\ sent'[Len(sent')].sessionId = c.sessionID
             /\ sent'[Len(sent')].sessionTitle = c.sessionID
             /\ sent'[Len(sent')].projectId = ""
             /\ sent'[Len(sent')].projectDirectory = c.directory
             /\ sent'[Len(sent')].desktopUrl =
                    <<DesktopBaseUrl, "/", "", "/session/", c.sessionID>>
             /\ knownSubagents' = knownSubagents]_vars

\* an idle notification for the titled session s1 went out under the
\* identifier and without project id, no lookup being outstanding
C20_Witness ==
    /\ inflight = EmptyBag
    /\ \E i \in 1..Len(sent) :
            /\ sent[i].type = "idle"
            /\ sent[i].sessionId = "s1"
            /\ sent[i].sessionTitle = "s1"
            /\ sent[i].projectId = ""

\* a lookup of s has succeeded before: only a lookup that succeeded puts the
\* project id into a notification
FetchedBefore(s) ==
    \E i \in 1..Len(sent) : sent[i].sessionId = s /\ sent[i].projectId = ProjectID

\* C21 (as stated): once a lookup of a session has succeeded, no step issues
\* another remote request for that session.
C21_LookupIsCached ==
    [][\A s \in SessionIDs :
          FetchedBefore(s) =>
             /\ Outstanding(inflight', s, "idle") <= Outstanding(inflight, s, "idle")
             /\ Outstanding(inflight', s, "question")
                    <= Outstanding(inflight, s, "question")]_vars

\* the step is the expiry of a timer of session s that starts the lookup
StartsIdleLookup(s) ==
    Outstanding(inflight', s, "idle") > Outstanding(inflight, s, "idle")

\* C22 (as stated): the pendingNotifications entry of the session is still
\* there when the expired timer's callback starts its lookup; it goes only
\* after the dispatch.
C22_EntryClearedAfterDispatch ==
    [][\A s \in SessionIDs :
          StartsIdleLookup(s) => s \in DOMAIN pendingNotifications']_vars

\* C22 (amended): the callback removes the session's pendingNotifications
\* entry first, before the re-check, the lookup and the dispatch; an entry
\* that exists always names a timer that has not fired, so during the lookup
\* and the dispatch only a timer of a later idle transition can be pending.
C22_EntryClearedFirst ==
    /\ [][\A t \in timers :
            TimerExpires(t) => t.sessionID \notin DOMAIN pendingNotifications']_vars
    /\ [](\A s \in DOMAIN pendingNotifications :
             \E t \in timers : t.id = pendingNotifications[s] /\ t.sessionID = s)

\* the lookup of an expired timer is in flight and its session has no entry
C22_Witness ==
    \E s \in SessionIDs :
       /\ Outstanding(inflight, s, "idle") > 0
       /\ s \notin DOMAIN pendingNotifications

\* the step hands an idle notification of session s to the notifier
DispatchesIdle(s) ==
    CountSent(sent', s, "idle") > CountSent(sent, s, "idle")

\* C23 (as stated): an idle notification of a session is handed to the
\* notifier only while the tracked status of that session is idle.
C23_IdleAtDispatch ==
    [][\A s \in SessionIDs :
          DispatchesIdle(s) => StatusOf(sessionState, s) = "idle"]_vars

\* C24 (as stated): the idle notifications of one session are dispatched in
\* the order of the idle transitions (setTimeout calls) that led to them.
C24_DispatchFollowsTransitionOrder ==
    \A i, j \in 1..Len(causes) :
       (/\ i < j
        /\ sent[i].type = "idle"
        /\ sent[j].type = "idle"
        /\ sent[i].sessionId = sent[j].sessionId) => causes[i] < causes[j]

\* C25: a session never has more idle notifications than idle transitions.
\* Every timer is started by an observation that takes the session from busy
\* or retry to idle, one timer per such observation; and the notifications
\* dispatched, the lookups of expired timers still in flight and the timers
\* still live together never outnumber the timers started, so no timer leads
\* to a second notification.
C25_AtMostOnePerTransition ==
    /\ [][\A s \in SessionIDs :
            scheduled'[s] # scheduled[s] =>
               /\ scheduled'[s] = scheduled[s] + 1
               /\ lastObserved[s] \in NonIdle
               /\ lastObserved'[s] = "idle"]_vars
    /\ [](\A s \in SessionIDs :
             CountSent(sent, s, "idle") + Outstanding(inflight, s, "idle")
                + Cardinality(TimersOf(s)) <= scheduled[s])

\* two idle transitions of a session were observed and each has led to its
\* notification
C25_Witness ==
    \E s \in SessionIDs :
       /\ scheduled[s] = 2
       /\ CountSent(sent, s, "idle") = 2
       /\ Outstanding(inflight, s, "idle") = 0
       /\ TimersOf(s) = {}

\* the step issues a fetchSessionInfo request for session s
IssuesLookup(s) ==
    \/ Outstanding(inflight', s, "idle") > Outstanding(inflight, s, "idle")
    \/ Outstanding(inflight', s, "question") > Outstanding(inflight, s, "question")

\* C26 (as stated): no step issues a metadata lookup for a session that is in
\* the known-subagent set.
C26_NoLookupForKnownSubagent ==
    [][\A s \in knownSubagents : ~IssuesLookup(s)]_vars

\* C27 (as stated): no session in the known-subagent set has a pending
\* debounce timer.
C27_KnownSubagentHasNoTimer ==
    \A s \in knownSubagents :
       /\ s \notin DOMAIN pendingNotifications
       /\ TimersOf(s) = {}

\* the step hands a question notification with key k to the notifier
DispatchesQuestion(k) ==
    \E c \in BagToSet(inflight), ok \in BOOLEAN :
       /\ c.kind = "question"
       /\ c.questionKey = k
       /\ QuestionLookupReturns(c, ok)
       /\ Len(sent') = Len(sent) + 1

\* the keys question tool events can have
QuestionKeys ==
    {QuestionKey(s, QuestionTextOf(i)) : s \in SessionIDs, i \in QuestionInputs}

\* C28 (as stated): while the key of a question is recorded in
\* notifiedQuestions, that is from its notification until the cleanup removes
\* it, no further question notification with that key is dispatched.
C28_QuestionNotifiedOnce ==
    [][\A k \in QuestionKeys :
          DispatchesQuestion(k) => k \notin DOMAIN notifiedQuestions]_vars

\* the server has a parent for session s
IsSubagent(s) == Truthy(ServerParentID[s])

\* the step hands a question notification of session s to the notifier
NotifiesQuestion(s) ==
    CountSent(sent', s, "question") > CountSent(sent, s, "question")

\* C29 (as stated): a question notification is dispatched only for a session
\* that is not a subagent.
C29_NoQuestionForSubagent ==
    [][\A s \in SessionIDs : NotifiesQuestion(s) => ~IsSubagent(s)]_vars

\* C29 (amended): an event that is not in running state, or whose session is
\* in the known-subagent set, starts no lookup and dispatches nothing; every
\* lookup the question path starts stems from a running event of a session
\* not in the set; a lookup that returns a parent dispatches nothing, adds the
\* session to the set and records no key; and every question notification
\* comes from a lookup that returned no parent, be it of a top-level session
\* or a failed lookup of a subagent.
C29_QuestionPathConditions ==
    [][/\ \A s \in SessionIDs, ts \in ToolStates, d \in Directories :
            (OnQuestionTool(s, ts, d)
                /\ (ts.status # "running" \/ s \in knownSubagents))
            => /\ inflight' = inflight
               /\ sent' = sent
               /\ notifiedQuestions' = notifiedQuestions
       /\ \A s \in SessionIDs :
            Outstanding(inflight', s, "question") > Outstanding(inflight, s, "question")
            => /\ s \notin knownSubagents
               /\ \E ts \in ToolStates, d \in Directories :
                     ts.status = "running" /\ OnQuestionTool(s, ts, d)
       /\ \A c \in BagToSet(inflight), ok \in BOOLEAN :
            (QuestionLookupReturns(c, ok)
                /\ HasParent(fetchSessionInfo(c.sessionID, ok)))
            => /\ sent' = sent
               /\ c.sessionID \in knownSubagents'
               /\ notifiedQuestions' = notifiedQuestions
       /\ \A s \in SessionIDs :
            NotifiesQuestion(s)
            => \E c \in BagToSet(inflight), ok \in BOOLEAN :
                  /\ c.sessionID = s
                  /\ QuestionLookupReturns(c, ok)
                  /\ (IsSubagent(s) => ~ok)]_vars

\* the lookup of a running question event returned a parent: the session is
\* marked, nothing was dispatched and no key was recorded
C29_Witness ==
    \E s \in knownSubagents :
       /\ asked = 1
       /\ scheduled[s] = 0
       /\ inflight = EmptyBag
       /\ sent = <<>>
       /\ notifiedQuestions = EmptyMap

\* the part of the tracker's state that belongs to session o
TrackedOf(o) ==
    <<IF o \in DOMAIN sessionState THEN <<sessionState[o]>> ELSE <<>>,
      IF o \in DOMAIN pendingNotifications THEN <<pendingNotifications[o]>> ELSE <<>>,
      TimersOf(o),
      o \in knownSubagents>>

\* C30: a status observation of a session, the expiry of one of its timers
\* and the return of that timer's lookup leave the tracked entry, the pending
\* timer and the subagent marking of every other session as they were.
C30_OtherSessionsUntouched ==
    [][\A s \in SessionIDs :
          (\/ \E st \in StatusTypes : Observes(s, st)
           \/ \E t \in TimersOf(s) : TimerExpires(t)
           \/ \E c \in BagToSet(inflight), ok \in BOOLEAN :
                 c.sessionID = s /\ IdleLookupReturns(c, ok))
          => \A o \in SessionIDs \ {s} : TrackedOf(o)' = TrackedOf(o)]_vars

\* a timer of one session has expired while the other session is tracked,
\* has a pending timer and is not marked
C30_Witness ==
    \E s \in SessionIDs : \E o \in SessionIDs \ {s} :
       /\ scheduled[s] = 1
       /\ TimersOf(s) = {}
       /\ Outstanding(inflight, s, "idle") = 1
       /\ o \in DOMAIN sessionState
       /\ o \in DOMAIN pendingNotifications
       /\ TimersOf(o) # {}

\* C31 (as stated): the sweep leaves the pending timers alone, and a timer
\* whose session's entry the sweep has reclaimed since the timer was started
\* expires without a lookup and without a notification.
C31_ReclaimedTimerAborts ==
    [][/\ SessionCleanup =>
            /\ pendingNotifications' = pendingNotifications
            /\ timers' = timers
       /\ \A t \in timers :
            (TimerExpires(t) /\ t.id \in orphans) =>
                /\ inflight' = inflight
                /\ sent' = sent]_vars

\* C31 (amended): the sweep leaves the pending timers alone, and a timer that
\* expires while its session has no tracked entry, reclaimed and not created
\* again by a later observation, expires without a lookup and without a
\* notification.
C31_UntrackedTimerAborts ==
    [][/\ SessionCleanup =>
            /\ pendingNotifications' = pendingNotifications
            /\ timers' = timers
       /\ \A t \in timers :
            (TimerExpires(t) /\ t.sessionID \notin DOMAIN sessionState) =>
                /\ inflight' = inflight
                /\ sent' = sent
                /\ knownSubagents' = knownSubagents]_vars

\* the sweep has reclaimed the entry of a session whose timer was pending, and
\* the timer has since expired: nothing was looked up or dispatched
C31_Witness ==
    \E s \in SessionIDs :
       /\ scheduled[s] = 1
       /\ lastObserved[s] = "idle"
       /\ s \notin DOMAIN sessionState
       /\ TimersOf(s) = {}
       /\ s \notin DOMAIN pendingNotifications
       /\ inflight = EmptyBag
       /\ sent = <<>>

\* C32: an observation of a session whose entry the sweep has removed is
\* handled like a first one: it records the entry anew, and if it is idle it
\* starts no timer and leaves the pending timers as they are, whatever the
\* status observed before the reclamation was.
C32_ReclaimedSessionStartsAfresh ==
    [][\A s \in SessionIDs, st \in StatusTypes :
          (/\ Observes(s, st)
           /\ lastObserved[s] # Undefined
           /\ s \notin DOMAIN sessionState) =>
              /\ sessionState'[s] = [status |-> st, lastSeen |-> now]
              /\ ~Schedules(s)
              /\ st = "idle" =>
                    /\ timers' = timers
                    /\ pendingNotifications' = pendingNotifications]_vars

\* a session last observed busy or retry has lost its entry to the sweep
C32_Witness ==
    \E s \in SessionIDs :
       /\ lastObserved[s] \in NonIdle
       /\ s \notin DOMAIN sessionState
       /\ now - SESSION_TTL_MS > 0

\* C33 (as stated): for every decoded session.status event every registered
\* handler was called exactly once, in registration order.
C33_EveryHandlerCalledInOrder ==
    \A e \in 1..Len(deliveries) :
       deliveries[e].called = [i \in 1..deliveries[e].registered |-> i]

\* the values the claim allows for the reconnect delay
ClaimedDelays == {1000, 2000, 4000, 8000, 16000, 30000}

\* C34: in every reachable state of SSEClient the reconnect delay, and the
\* delay of a sleep in progress, is one of 1000, 2000, 4000, 8000, 16000 and
\* 30000 ms.
C34_DelayWithinLadder ==
    /\ reconnectDelay \in ClaimedDelays
    /\ pc = "sleep" => sleepFor \in ClaimedDelays

\* the delay stands at its cap while the next attempt is on its way, and
\* stop() has been called
C34_Witness ==
    /\ reconnectDelay = 30000
    /\ pc = "fetch"
    /\ stops >= 1

\* lines to try the line processor on: the empty line, a comment, event: and
\* id: fields, a lone carriage return, a data: line after a blank, and data:
\* lines with and without text
OtherLines ==
    {<<":">>, <<"e", "v", "e", "n", "t", ":", "x">>, <<"i", "d", ":", "1">>,
     <<"\r">>, <<" ">> \o DataPrefix \o <<"E">>, <<"d", "a", "t", "a">>}

DataLines ==
    {DataPrefix, DataPrefix \o <<" ">>, DataPrefix \o <<"B">>,
     DataPrefix \o <<" ", "E", " ", "\r">>}

\* the decoder state of the open connection
Decoder ==
    [data |-> currentEventData, processed |-> processed, emitted |-> emitted]

\* the text of a data: line that goes into the frame buffer
Payload(line) ==
    LET rest == SubSeq(line, Len(DataPrefix) + 1, Len(line))
        first == {i \in 1..Len(rest) : rest[i] \notin Whitespace}
    IN  IF first = {} THEN <<>>
        ELSE SubSeq(rest, CHOOSE i \in first : \A j \in first : i <= j,
                          CHOOSE i \in first : \A j \in first : i >= j)

\* C35: in every state of the decoder, an empty line hands the frame buffer to
\* processEvent and clears it when the buffer is not empty and does nothing
\* when it is empty; a line that is neither empty nor a data: line changes
\* nothing; and a data: line appends its text, trimmed and without a
\* separator, to the buffer and emits nothing, so that the data: lines of one
\* frame reach processEvent as one text.
C35_LineProcessor ==
    /\ LET r == processLine(<<>>, Decoder)
       IN  IF currentEventData = <<>>
           THEN r = Decoder
           ELSE /\ r.data = <<>>
                /\ r.processed = Append(processed, currentEventData)
                /\ \A i \in 1..Len(r.emitted) :
                      IF i <= Len(emitted) THEN r.emitted[i] = emitted[i]
                      ELSE r.emitted[i].frame = Len(r.processed)
    /\ \A line \in OtherLines : processLine(line, Decoder) = Decoder
    /\ \A line \in DataLines :
          LET r == processLine(line, Decoder)
          IN  /\ r.data = currentEventData \o Payload(line)
              /\ r.processed = processed
              /\ r.emitted = emitted
    /\ \A l1, l2 \in DataLines :
          LET r == processLines(<<l1, l2, <<>> >>, Decoder)
              text == currentEventData \o Payload(l1) \o Payload(l2)
          IN  IF text = <<>> THEN r = Decoder
              ELSE /\ r.data = <<>>
                   /\ r.processed = Append(processed, text)

\* the two data: lines of a frame were handed to processEvent as one text and
\* the busy observation in it reached the handler
C35_Witness ==
    /\ \E i \in 1..Len(processed) : processed[i] = <<"A", "B">>
    /\ \E j \in 1..Len(emitted) :
          emitted[j].call.args = <<StatusPayload("busy")>>
    /\ currentEventData # <<>>

====
